---- MODULE Spec2Model ----
(***************************************************************************)
(* A model of the survey question classes:                                 *)
(*   - QuestionMatrixDynamicModel (rowCount, addRow, removeRow,            *)
(*     generateRows, createNewValue, deleteRowValue), and                  *)
(*   - Question (value with its re-entrancy guards, comment, the error     *)
(*     check).                                                             *)
(* All operations are synchronous.  An operation that dispatches no        *)
(* handler is one action; the value setter, the comment setter and         *)
(* onSurveyValueChanged dispatch handlers that may call back into the      *)
(* question, so they are modelled with an explicit call stack.             *)
(***************************************************************************)
EXTENDS Integers, Sequences, FiniteSets, TLC

VARIABLES
    rowCountValue,   \* QuestionMatrixDynamicModel.rowCountValue
    rowCounter,      \* QuestionMatrixDynamicModel.rowCounter
    createdIndices,  \* index of every MatrixDynamicRowModel constructed so far, in creation order
    questionValue,   \* Question.questionValue (the fallback slot)
    questionComment, \* Question.questionComment (the fallback slot)
    data,            \* QuestionBase.data: the data provider, when one is attached, and what it stores
    isvalueChangedCallbackFiring,  \* Question.isvalueChangedCallbackFiring
    isValueChangedInSurvey,        \* Question.isValueChangedInSurvey
    stack,           \* the question's calls that are waiting in fireCallback, outermost first
    outerNotified,   \* value-changed notifications fired since the outermost value assignment in progress began
    errors,          \* Question.errors
    isRequiredValue, \* Question.isRequiredValue
    survey,          \* QuestionBase.survey: whether a container is attached
    validateValueCallback,  \* whether Question.validateValueCallback is set
    readOnlyValue,   \* Question.readOnlyValue
    enableIf,        \* Question.enableIf
    conditionEnabelRunner,  \* Question.conditionEnabelRunner: the runner, once constructed, and its expression
    runnersConstructed,     \* how many ConditionRunner objects the question has constructed
    isDisplayMode,   \* survey.isDisplayMode
    questionStartIndex,     \* survey.questionStartIndex, as its character codes (<<>> when it is not set)
    visibleIndex,    \* QuestionBase.visibleIndex
    hasCommentValue, \* Question.hasCommentValue
    hasOtherValue,   \* Question.hasOtherValue
    supportComment,  \* what supportComment() returns for this question's class
    supportOther,    \* what supportOther() returns for this question's class
    returned,        \* what the last completed operation returned
    lastOp,          \* the last step: a call of a client or of a handler, or a handler's return
    calls            \* notifications and collaborator calls made by the last step

matrixVars == <<rowCountValue, rowCounter, createdIndices>>
storeVars == <<questionValue, questionComment, data>>
guardVars == <<isvalueChangedCallbackFiring, isValueChangedInSurvey, stack, outerNotified>>
errorVars == <<errors, isRequiredValue, survey, validateValueCallback>>
conditionVars == <<readOnlyValue, enableIf, conditionEnabelRunner, runnersConstructed>>
containerVars == <<isDisplayMode, questionStartIndex, visibleIndex>>
flagVars == <<hasCommentValue, hasOtherValue, supportComment, supportOther>>
viewVars == <<conditionVars, containerVars, flagVars>>
\* the operation of the last step stands first: steps of different operations
\* differ there, before their arguments and results are compared
vars == <<lastOp.op, matrixVars, storeVars, guardVars, errorVars, viewVars, returned, lastOp, calls>>

-----------------------------------------------------------------------------
(* Bounds of the exploration *)

\* longest array a client assigns to value
MaxLen == 3
\* SpecMatrix: clients call addRow / assign rowCount only up to this many rows
MaxRows == 3
\* generateRows is explored while rowCounter stays within this cap
MaxRowCounter == 5
\* deepest nesting of calls waiting in fireCallback
MaxDepth == 3
\* addError is explored while the error list is shorter than this
MaxErrors == 2
MaxVisibleIndex == 10

(* Program constants *)

MaxRowCount == 100

-----------------------------------------------------------------------------
(* Values.  A question value is null or an array of row objects.  A row   *)
(* object is modelled by the set of its own keys (cells answered).        *)

NullValue == [isNull |-> TRUE, arr |-> <<>>]
ArrayValue(a) == [isNull |-> FALSE, arr |-> a]

EmptyObject == {}
RowObjects == {EmptyObject, {"col1"}, {"col2"}}

RECURSIVE SeqsUpTo(_, _)
SeqsUpTo(S, n) ==
    IF n = 0 THEN {<<>>}
    ELSE LET shorter == SeqsUpTo(S, n - 1)
         IN shorter \cup {Append(s, x) : s \in {t \in shorter : Len(t) = n - 1}, x \in S}

ArrayInputs == SeqsUpTo(RowObjects, MaxLen)
ValueInputs == {NullValue} \cup {ArrayValue(a) : a \in ArrayInputs}

Min(a, b) == IF a < b THEN a ELSE b
Max(a, b) == IF a > b THEN a ELSE b

\* Array.prototype.splice(start): removes everything from start on; a negative
\* start counts from the end of the array.
SpliceFrom(a, start) ==
    LET from == IF start < 0 THEN Max(Len(a) + start, 0) ELSE Min(start, Len(a))
    IN SubSeq(a, 1, from)

\* Array.prototype.splice(index, 1) with a 0-based index.
SpliceOne(a, index) ==
    LET from == IF index < 0 THEN Max(Len(a) + index, 0) ELSE Min(index, Len(a))
    IN SubSeq(a, 1, from) \o SubSeq(a, from + 2, Len(a))

\* the loop "for (i = result.length; i < rowCount; i++) result.push({})"
PadTo(a, n) == a \o [i \in 1..Max(n - Len(a), 0) |-> EmptyObject]

\* JavaScript truthiness of a question value: null is falsy, every array is truthy
Truthy(v) == ~v.isNull

-----------------------------------------------------------------------------
(* QuestionMatrixDynamicModel *)

RowCountAccepts_NoUpperCheck(val) == ~(val < 0)
RowCountAccepts_NoLowerCheck(val) == ~(val > MaxRowCount)
\* set rowCount: the guard "if (val < 0 || val > MaxRowCount) return"
RowCountAccepts(val) == ~(val < 0 \/ val > MaxRowCount)

\* the value of rowCountValue after "this.rowCount = val"
SetRowCountValue(cur, val) == IF RowCountAccepts(val) THEN val ELSE cur

\* removeRow: the guard "if (index < 0 || index >= this.rowCount) return"
RemoveRowAccepts(index, rowCount) == ~(index < 0 \/ index >= rowCount)

createNewValue_NoTruncation(curValue, rowCount) ==
    PadTo(IF ~Truthy(curValue) THEN <<>> ELSE curValue.arr, rowCount)
\* createNewValue(curValue), with this.rowCount = rowCount: the array it returns.
\* The array is curValue itself (changed in place) unless curValue is null.
createNewValue(curValue, rowCount) ==
    LET result == IF ~Truthy(curValue) THEN <<>> ELSE curValue.arr
        cut == IF Len(result) > rowCount THEN SpliceFrom(result, rowCount - 1) ELSE result
    IN PadTo(cut, rowCount)

deleteRowValue_NeverNull(newValue) == ArrayValue(newValue)
\* deleteRowValue(newValue, row): null when every entry has no own key
deleteRowValue(newValue) ==
    LET isEmpty == \A i \in 1..Len(newValue) : ~(Cardinality(newValue[i]) > 0)
    IN IF isEmpty THEN NullValue ELSE ArrayValue(newValue)

\* what a row model wraps: a row object of the array, or null
RowValue(obj) == [isNull |-> FALSE, obj |-> obj]
NullRow == [isNull |-> TRUE, obj |-> EmptyObject]

\* getRowValueByIndex(questionValue, index), index 0-based
getRowValueByIndex(arr, index) ==
    IF index >= 0 /\ index < Len(arr) THEN RowValue(arr[index + 1]) ELSE NullRow

createMatrixRow_Positional(counter, position, rowValue) == [index |-> position, value |-> rowValue]
\* createMatrixRow(value) called when rowCounter = counter + position:
\* new MatrixDynamicRowModel(this.rowCounter++, this, value)
createMatrixRow(counter, position, rowValue) == [index |-> counter + position, value |-> rowValue]

-----------------------------------------------------------------------------
(* Question: the value store *)

\* questionComment has no initializer (line 20): undefined, which no text equals
UndefinedComment == "undefined"

\* the data provider: getValue / setValue / getComment / setComment keep one
\* value and one comment under the question's name
NoData == [attached |-> FALSE, value |-> NullValue, comment |-> ""]

valueFromData(val) == val
valueToData(val) == val

getValueCore == IF data.attached THEN data.value ELSE questionValue

\* get value
value == valueFromData(getValueCore)

setValueCore_FallbackOnly(newValue) ==
    /\ questionValue' = newValue
    /\ UNCHANGED data
\* setValueCore(newValue)
setValueCore(newValue) ==
    IF data.attached
    THEN /\ data' = [data EXCEPT !.value = newValue]
         /\ UNCHANGED questionValue
    ELSE /\ questionValue' = newValue
         /\ UNCHANGED data

\* setNewValueInData(newValue), run when isValueChangedInSurvey = changedInSurvey
setNewValueInData(newValue, changedInSurvey) ==
    IF ~changedInSurvey
    THEN setValueCore(valueToData(newValue))
    ELSE UNCHANGED <<questionValue, data>>

\* the changes in place that createNewValue made to the array got from get value
ChangeValueInPlace(arr) ==
    IF data.attached
    THEN /\ data' = [data EXCEPT !.value = ArrayValue(arr)]
         /\ UNCHANGED questionValue
    ELSE /\ questionValue' = ArrayValue(arr)
         /\ UNCHANGED data

NoReturn == <<>>
\* a client call: its name, its argument (0 when it has none) and rowCount when it was made
Op(name, arg) == [op |-> name, arg |-> arg, rowCountBefore |-> rowCountValue]

-----------------------------------------------------------------------------
(* Actions of the dynamic matrix *)

\* client: question.rowCount = val
SetRowCount(val) ==
    /\ rowCountValue' = SetRowCountValue(rowCountValue, val)
    /\ UNCHANGED viewVars
    /\ lastOp' = Op("setRowCount", val)
    /\ returned' = NoReturn
    /\ calls' = <<>>
    /\ UNCHANGED <<rowCounter, createdIndices, storeVars, guardVars, errorVars>>

\* client: question.addRow()
AddRow ==
    /\ rowCountValue' = SetRowCountValue(rowCountValue, rowCountValue + 1)
    /\ UNCHANGED viewVars
    /\ lastOp' = Op("addRow", 0)
    /\ returned' = NoReturn
    /\ calls' = <<>>
    /\ UNCHANGED <<rowCounter, createdIndices, storeVars, guardVars, errorVars>>

\* client: question.removeRow(index)
RemoveRow(index) ==
    /\ UNCHANGED viewVars
    /\ lastOp' = Op("removeRow", index)
    /\ returned' = NoReturn
    /\ IF ~RemoveRowAccepts(index, rowCountValue)
       THEN /\ calls' = <<>>
            /\ UNCHANGED <<rowCountValue, questionValue, data>>
       ELSE /\ IF Truthy(value)
               THEN LET val == SpliceOne(createNewValue(value, rowCountValue), index)
                    IN /\ setNewValueInData(deleteRowValue(val), isValueChangedInSurvey)
                       /\ calls' = <<"valueChanged">>
               ELSE /\ UNCHANGED <<questionValue, data>>
                    /\ calls' = <<>>
            /\ rowCountValue' = SetRowCountValue(rowCountValue, rowCountValue - 1)
    /\ UNCHANGED <<rowCounter, createdIndices, questionComment, guardVars, errorVars>>

\* client: question.value = newValue, with a handler that calls nothing back
AssignValue(newValue) ==
    /\ setNewValueInData(newValue, isValueChangedInSurvey)
    /\ UNCHANGED viewVars
    /\ lastOp' = Op("setValue", newValue)
    /\ returned' = NoReturn
    /\ calls' = <<"valueChanged">>
    /\ UNCHANGED <<matrixVars, questionComment, guardVars, errorVars>>

\* generateRows(): the rows it returns
GeneratedRows(curValue, rowCount, counter) ==
    IF rowCount = 0 THEN <<>>
    ELSE LET val == createNewValue(curValue, rowCount)
         IN [i \in 1..rowCount |-> createMatrixRow(counter, i - 1, getRowValueByIndex(val, i - 1))]

\* generateRows(), called by the base class when the visible rows are asked for
GenerateRows ==
    /\ rowCounter + rowCountValue <= MaxRowCounter
    /\ LET rows == GeneratedRows(value, rowCountValue, rowCounter)
       IN /\ returned' = rows
          /\ rowCounter' = rowCounter + Len(rows)
          /\ createdIndices' = createdIndices \o [i \in 1..Len(rows) |-> rows[i].index]
    \* createNewValue changes the stored array in place
    /\ IF rowCountValue = 0 \/ ~Truthy(value)
       THEN UNCHANGED <<questionValue, data>>
       ELSE ChangeValueInPlace(createNewValue(value, rowCountValue))
    /\ UNCHANGED viewVars
    \* the argument slot records whether the call before this one was generateRows too
    /\ lastOp' = Op("generateRows", IF lastOp.op = "generateRows" THEN 1 ELSE 0)
    /\ calls' = <<>>
    /\ UNCHANGED <<rowCountValue, questionComment, guardVars, errorVars>>

\* no runner before the first runCondition with an enableIf (line 26: no initializer)
NoRunner == [constructed |-> FALSE, expression |-> ""]

\* hasComment and hasOther as constructed, in class Question, which supports neither
InitFlags ==
    /\ hasCommentValue = FALSE
    /\ hasOtherValue = FALSE
    /\ supportComment = FALSE
    /\ supportOther = FALSE

\* the fields behind readOnly, enableIf and no, as constructed, in a container
\* that is not in display mode and sets no questionStartIndex
InitView ==
    /\ readOnlyValue = FALSE
    /\ enableIf = ""
    /\ conditionEnabelRunner = NoRunner
    /\ runnersConstructed = 0
    /\ isDisplayMode = FALSE
    /\ questionStartIndex = <<>>
    /\ visibleIndex = -1
    /\ InitFlags

\* the fields of a question just constructed, with nothing attached
InitQuestion ==
    /\ questionValue = NullValue
    /\ questionComment = UndefinedComment
    /\ data = NoData
    /\ isvalueChangedCallbackFiring = FALSE
    /\ isValueChangedInSurvey = FALSE
    /\ stack = <<>>
    /\ outerNotified = 0
    /\ errors = <<>>
    /\ isRequiredValue = FALSE
    /\ survey = FALSE
    /\ validateValueCallback = FALSE
    /\ InitView

InitMatrix ==
    /\ InitQuestion
    /\ rowCountValue = 2
    /\ rowCounter = 0
    /\ createdIndices = <<>>
    /\ returned = NoReturn
    /\ lastOp = [op |-> "new", arg |-> 0, rowCountBefore |-> 2]
    /\ calls = <<>>

\* SpecMatrix: the row data, with few rows
RowCountInputs == (-1..MaxRows) \cup {MaxRowCount + 1}
IndexInputs == -1..MaxRows

NextMatrix ==
    \/ \E val \in RowCountInputs : SetRowCount(val)
    \/ (rowCountValue < MaxRows /\ AddRow)
    \/ \E index \in IndexInputs : RemoveRow(index)
    \/ \E v \in ValueInputs : AssignValue(v)
    \/ GenerateRows

SpecMatrix == InitMatrix /\ [][NextMatrix]_vars

\* SpecRowCount: the whole range of rowCount, with a small value
WideRowCountInputs == {-1, 0, 1, MaxRowCount - 1, MaxRowCount, MaxRowCount + 1}
SmallValueInputs == {NullValue, ArrayValue(<<{"col1"}>>)}

NextRowCount ==
    \/ \E val \in WideRowCountInputs : SetRowCount(val)
    \/ AddRow
    \/ \E index \in {-1, 0, rowCountValue - 1, rowCountValue} : RemoveRow(index)
    \/ \E v \in SmallValueInputs : AssignValue(v)

SpecRowCount == InitMatrix /\ [][NextRowCount]_vars

\* SpecNormalize: createNewValue as a function of the current value and rowCount.
\* Its callers (removeRow, generateRows) call it with rowCount >= 1 only.
InitNormalize ==
    /\ rowCountValue \in 1..MaxRows
    /\ questionValue \in ValueInputs
    /\ questionComment = UndefinedComment
    /\ data = NoData
    /\ isvalueChangedCallbackFiring = FALSE
    /\ isValueChangedInSurvey = FALSE
    /\ stack = <<>>
    /\ outerNotified = 0
    /\ errors = <<>>
    /\ isRequiredValue = FALSE
    /\ survey = FALSE
    /\ validateValueCallback = FALSE
    /\ InitView
    /\ rowCounter = 0
    /\ createdIndices = <<>>
    /\ returned = NoReturn
    /\ lastOp = [op |-> "new", arg |-> 0, rowCountBefore |-> rowCountValue]
    /\ calls = <<>>

\* var val = this.createNewValue(this.value)
CreateNewValue ==
    /\ lastOp.op = "new"
    /\ returned' = createNewValue(value, rowCountValue)
    /\ IF Truthy(value)
       THEN ChangeValueInPlace(createNewValue(value, rowCountValue))
       ELSE UNCHANGED <<questionValue, data>>
    /\ UNCHANGED viewVars
    /\ lastOp' = Op("createNewValue", 0)
    /\ UNCHANGED <<matrixVars, questionComment, guardVars, errorVars, calls>>

NextNormalize == CreateNewValue

SpecNormalize == InitNormalize /\ [][NextNormalize]_vars

-----------------------------------------------------------------------------
(* Question: value, comment and the two re-entrancy flags.                 *)
(* fireCallback(cb) runs the handler cb synchronously.  While a handler    *)
(* runs, the call that dispatched it waits at its fireCallback line; stack *)
(* holds these waiting calls.  The code that runs is the handler           *)
(* dispatched by the last entry of stack, or the client when stack is      *)
(* empty; it may call the question again, or return.                       *)

AtValueSet == "value.set"                              \* set value, waiting at line 260
AtSurveyValue == "onSurveyValueChanged.value"          \* onSurveyValueChanged, at line 376
AtSurveyComment == "onSurveyValueChanged.comment"      \* onSurveyValueChanged, waiting at line 377
AtCommentSet == "comment.set"                          \* set comment, waiting at line 274

QuestionValueInputs == {NullValue, ArrayValue(<<>>), ArrayValue(<<{"col1"}>>)}
CommentInputs == {"", "text"}

\* a value assignment is in progress: its setter waits for its handler to return
ValueSetInProgress == \E i \in 1..Len(stack) : stack[i] = AtValueSet

SetterReturnsEarly_Never == FALSE
\* set value, line 258: "if (this.isvalueChangedCallbackFiring) return"
SetterReturnsEarly == isvalueChangedCallbackFiring

\* set value, line 261: isvalueChangedCallbackFiring once the handler has returned
FiringAfterDispatch == FALSE

\* the count of notifications of the outermost assignment, when a setter is entered
NotifiedAtEntry == IF ValueSetInProgress THEN outerNotified ELSE 0

\* get comment
comment == IF data.attached THEN data.comment ELSE questionComment

\* setNewComment(newValue)
setNewComment(newValue) ==
    IF data.attached
    THEN /\ data' = [data EXCEPT !.comment = newValue]
         /\ UNCHANGED <<questionValue, questionComment>>
    ELSE /\ questionComment' = newValue
         /\ UNCHANGED <<questionValue, data>>

\* question.value = newValue, by the client or by the running handler
SetValue(newValue) ==
    /\ SetterReturnsEarly \/ Len(stack) < MaxDepth
    /\ setNewValueInData(newValue, isValueChangedInSurvey)
    /\ IF SetterReturnsEarly
       THEN /\ calls' = <<>>
            /\ outerNotified' = NotifiedAtEntry
            /\ UNCHANGED <<isvalueChangedCallbackFiring, stack>>
       ELSE /\ isvalueChangedCallbackFiring' = TRUE
            /\ calls' = <<"valueChanged">>
            /\ outerNotified' = NotifiedAtEntry + 1
            /\ stack' = Append(stack, AtValueSet)
    /\ UNCHANGED viewVars
    /\ lastOp' = Op("setValue", newValue)
    /\ returned' = NoReturn
    /\ UNCHANGED <<matrixVars, questionComment, isValueChangedInSurvey, errorVars>>

\* question.onSurveyValueChanged(newValue), by the container or by the running handler
OnSurveyValueChanged(newValue) ==
    /\ Len(stack) + (IF SetterReturnsEarly THEN 1 ELSE 2) <= MaxDepth
    /\ isValueChangedInSurvey' = TRUE
    /\ setNewValueInData(valueFromData(newValue), TRUE)
    /\ IF SetterReturnsEarly
       THEN /\ calls' = <<"commentChanged">>
            /\ outerNotified' = NotifiedAtEntry
            /\ stack' = Append(stack, AtSurveyComment)
            /\ UNCHANGED isvalueChangedCallbackFiring
       ELSE /\ isvalueChangedCallbackFiring' = TRUE
            /\ calls' = <<"valueChanged">>
            /\ outerNotified' = NotifiedAtEntry + 1
            /\ stack' = stack \o <<AtSurveyValue, AtValueSet>>
    /\ UNCHANGED viewVars
    /\ lastOp' = Op("onSurveyValueChanged", newValue)
    /\ returned' = NoReturn
    /\ UNCHANGED <<matrixVars, questionComment, errorVars>>

CommentIsSame_Never(newValue) == FALSE
\* set comment, line 272: "if (this.comment == newValue) return"
CommentIsSame(newValue) == comment = newValue

\* question.comment = newValue, by the client or by the running handler
SetComment(newValue) ==
    /\ IF CommentIsSame(newValue)
       THEN /\ calls' = <<>>
            /\ UNCHANGED <<storeVars, stack>>
       ELSE /\ Len(stack) < MaxDepth
            /\ setNewComment(newValue)
            /\ calls' = <<"commentChanged">>
            /\ stack' = Append(stack, AtCommentSet)
    /\ UNCHANGED viewVars
    /\ lastOp' = Op("setComment", newValue)
    /\ returned' = NoReturn
    /\ UNCHANGED <<matrixVars, isvalueChangedCallbackFiring, isValueChangedInSurvey,
                   outerNotified, errorVars>>

\* the running handler returns, and the call that dispatched it runs on to its
\* next fireCallback or to its end
Return ==
    /\ stack # <<>>
    /\ LET top == stack[Len(stack)]
           rest == SubSeq(stack, 1, Len(stack) - 1)
       IN CASE top = AtValueSet ->
                 /\ isvalueChangedCallbackFiring' = FiringAfterDispatch
                 /\ IF rest # <<>> /\ rest[Len(rest)] = AtSurveyValue
                    THEN /\ stack' = [rest EXCEPT ![Len(rest)] = AtSurveyComment]
                         /\ calls' = <<"commentChanged">>
                    ELSE /\ stack' = rest
                         /\ calls' = <<>>
                 /\ UNCHANGED isValueChangedInSurvey
            [] top = AtSurveyComment ->
                 /\ isValueChangedInSurvey' = FALSE
                 /\ stack' = rest
                 /\ calls' = <<>>
                 /\ UNCHANGED isvalueChangedCallbackFiring
            [] OTHER ->
                 /\ stack' = rest
                 /\ calls' = <<>>
                 /\ UNCHANGED <<isvalueChangedCallbackFiring, isValueChangedInSurvey>>
    /\ UNCHANGED viewVars
    /\ lastOp' = Op("return", 0)
    /\ returned' = NoReturn
    /\ UNCHANGED <<matrixVars, storeVars, outerNotified, errorVars>>

\* a question with or without a data provider attached
InitValue ==
    /\ questionValue = NullValue
    /\ questionComment = UndefinedComment
    /\ data \in {NoData, [NoData EXCEPT !.attached = TRUE]}
    /\ isvalueChangedCallbackFiring = FALSE
    /\ isValueChangedInSurvey = FALSE
    /\ stack = <<>>
    /\ outerNotified = 0
    /\ errors = <<>>
    /\ isRequiredValue = FALSE
    /\ survey = FALSE
    /\ validateValueCallback = FALSE
    /\ InitView
    /\ rowCountValue = 2
    /\ rowCounter = 0
    /\ createdIndices = <<>>
    /\ returned = NoReturn
    /\ lastOp = [op |-> "new", arg |-> 0, rowCountBefore |-> 2]
    /\ calls = <<>>

NextValue ==
    \/ \E v \in QuestionValueInputs : SetValue(v)
    \/ \E v \in QuestionValueInputs : OnSurveyValueChanged(v)
    \/ \E c \in CommentInputs : SetComment(c)
    \/ Return

SpecValue == InitValue /\ [][NextValue]_vars

-----------------------------------------------------------------------------
(* Question: the error check *)

RequiredError == "required"      \* new AnswerRequiredError(...)
ValidatorError == "validator"    \* the error runValidators() returns
ContainerError == "container"    \* the error fireSurveyValidation() returns
CustomError == "custom"          \* an error a client passes to addError

\* Base.isValueEmpty(value): null, or an array with no entry
isValueEmpty(val) == val.isNull \/ Len(val.arr) = 0

\* isEmpty()
isEmpty == isValueEmpty(value)

hasRequiredError_WhenAnswered == isRequiredValue /\ ~isEmpty
\* hasRequiredError()
hasRequiredError == isRequiredValue /\ isEmpty

errorsAfterClear_Kept == errors
\* checkForErrors, line 311: this.errors = []
errorsAfterClear == <<>>

\* onCheckForErrors(errors)
onCheckForErrors(errs) == IF hasRequiredError THEN Append(errs, RequiredError) ELSE errs

\* checkForErrors, line 313: whether runValidators() is called
RunsValidators(errs) == Len(errs) = 0 /\ ~isEmpty

RunsSurveyValidation_Always(errs) == survey
\* checkForErrors, line 319: whether fireSurveyValidation() is called
RunsSurveyValidation(errs) == survey /\ Len(errs) = 0

\* fireSurveyValidation(): the collaborator it asks
SurveyValidationCall ==
    IF validateValueCallback THEN "validateValueCallback" ELSE "survey.validateQuestion"

\* checkForErrors, line 325: whether errorsChangedCallback is fired
FiresErrorsChanged_OnlyOnChange(fireCallback, errorLength, errs) ==
    fireCallback /\ errorLength # Len(errs)
FiresErrorsChanged(fireCallback, errorLength, errs) ==
    fireCallback /\ (errorLength # Len(errs) \/ errorLength > 0)

\* hasErrors(fireCallback); validatorFails and containerFails say what the
\* validator chain and the container's validation return when they are asked
HasErrors(fireCallback, validatorFails, containerFails) ==
    LET errorLength == Len(errors)
        errs1 == onCheckForErrors(errorsAfterClear)
        validated == RunsValidators(errs1)
        errs2 == IF validated /\ validatorFails THEN Append(errs1, ValidatorError) ELSE errs1
        asked == RunsSurveyValidation(errs2)
        errs3 == IF asked /\ containerFails THEN Append(errs2, ContainerError) ELSE errs2
    IN /\ errors' = errs3
       /\ calls' = (IF validated THEN <<"runValidators">> ELSE <<>>)
                   \o (IF asked THEN <<SurveyValidationCall>> ELSE <<>>)
                   \o (IF FiresErrorsChanged(fireCallback, errorLength, errs3)
                       THEN <<"errorsChanged">> ELSE <<>>)
       /\ returned' = (Len(errs3) > 0)
       /\ UNCHANGED viewVars
       /\ lastOp' = Op("hasErrors", [fireCallback |-> fireCallback,
                                     validatorFails |-> validatorFails,
                                     containerFails |-> containerFails,
                                     errorLength |-> errorLength])
       /\ UNCHANGED <<matrixVars, storeVars, guardVars, isRequiredValue, survey,
                      validateValueCallback>>

\* addError(error)
AddError(error) ==
    /\ Len(errors) < MaxErrors
    /\ errors' = Append(errors, error)
    /\ calls' = <<"errorsChanged">>
    /\ UNCHANGED viewVars
    /\ lastOp' = Op("addError", error)
    /\ returned' = NoReturn
    /\ UNCHANGED <<matrixVars, storeVars, guardVars, isRequiredValue, survey,
                   validateValueCallback>>

\* question.isRequired = val
SetIsRequired(val) ==
    /\ isRequiredValue' = val
    /\ calls' = IF isRequiredValue = val THEN <<>> ELSE <<"titleChanged">>
    /\ UNCHANGED viewVars
    /\ lastOp' = Op("setIsRequired", 0)
    /\ returned' = NoReturn
    /\ UNCHANGED <<matrixVars, storeVars, guardVars, errors, survey, validateValueCallback>>

\* a question in or out of a container, with or without validateValueCallback
InitErrors ==
    /\ questionValue = NullValue
    /\ questionComment = UndefinedComment
    /\ data = NoData
    /\ isvalueChangedCallbackFiring = FALSE
    /\ isValueChangedInSurvey = FALSE
    /\ stack = <<>>
    /\ outerNotified = 0
    /\ errors = <<>>
    /\ isRequiredValue = FALSE
    /\ survey \in BOOLEAN
    /\ validateValueCallback \in BOOLEAN
    /\ InitView
    /\ rowCountValue = 2
    /\ rowCounter = 0
    /\ createdIndices = <<>>
    /\ returned = NoReturn
    /\ lastOp = [op |-> "new", arg |-> 0, rowCountBefore |-> 2]
    /\ calls = <<>>

NextErrors ==
    \/ \E v \in QuestionValueInputs : AssignValue(v)
    \/ \E b \in BOOLEAN : SetIsRequired(b)
    \/ AddError(CustomError)
    \/ \E f, v, c \in BOOLEAN : HasErrors(f, v, c)

SpecErrors == InitErrors /\ [][NextErrors]_vars

-----------------------------------------------------------------------------
(* Question: readOnly and enableIf *)

\* expression texts and the mappings they are run against
ExpressionInputs == {"", "{a} = 1", "{a} = 2"}
ConditionValuesInputs == {[a |-> 1], [a |-> 2]}

\* ConditionRunner.run(values) of a runner whose expression is the given text;
\* a text that does not evaluate counts as false
Evaluate(expression, values) ==
    CASE expression = "{a} = 1" -> values.a = 1
      [] expression = "{a} = 2" -> values.a = 2
      [] OTHER -> FALSE

\* get readOnly
readOnly == readOnlyValue

\* get isReadOnly
isReadOnly == readOnly \/ (survey /\ isDisplayMode)

\* set readOnly, with onReadOnlyChanged()
setReadOnly(val) ==
    IF readOnly = val
    THEN /\ calls' = <<>>
         /\ UNCHANGED readOnlyValue
    ELSE /\ readOnlyValue' = val
         /\ calls' = <<"readOnlyChanged">>

HasEnableIf_Always == TRUE
\* runCondition, line 213: "if (!this.enableIf) return"
HasEnableIf == enableIf # ""

\* runCondition, line 214: "if (!this.conditionEnabelRunner)"
ConstructsRunner == ~conditionEnabelRunner.constructed

RunnerAtRun_ExpressionKept ==
    IF ConstructsRunner
    THEN [constructed |-> TRUE, expression |-> enableIf]
    ELSE conditionEnabelRunner
\* runCondition, lines 214-215: the runner that is run, constructed now or
\* earlier, its expression set to enableIf
RunnerAtRun == [constructed |-> TRUE, expression |-> enableIf]

\* question.runCondition(values)
RunCondition(values) ==
    /\ IF HasEnableIf
       THEN /\ conditionEnabelRunner' = RunnerAtRun
            /\ runnersConstructed' = runnersConstructed + (IF ConstructsRunner THEN 1 ELSE 0)
            /\ setReadOnly(~Evaluate(conditionEnabelRunner'.expression, values))
       ELSE /\ calls' = <<>>
            /\ UNCHANGED <<readOnlyValue, conditionEnabelRunner, runnersConstructed>>
    /\ lastOp' = Op("runCondition", [values |-> values,
                                     expressionBefore |-> conditionEnabelRunner.expression])
    /\ returned' = NoReturn
    /\ UNCHANGED <<matrixVars, storeVars, guardVars, errorVars, enableIf, containerVars,
                   flagVars>>

\* question.enableIf = text
SetEnableIf(text) ==
    /\ enableIf' = text
    /\ calls' = <<>>
    /\ lastOp' = Op("setEnableIf", text)
    /\ returned' = NoReturn
    /\ UNCHANGED <<matrixVars, storeVars, guardVars, errorVars, readOnlyValue,
                   conditionEnabelRunner, runnersConstructed, containerVars, flagVars>>

\* question.readOnly = val
SetReadOnly(val) ==
    /\ setReadOnly(val)
    /\ lastOp' = Op("setReadOnly", val)
    /\ returned' = NoReturn
    /\ UNCHANGED <<matrixVars, storeVars, guardVars, errorVars, enableIf,
                   conditionEnabelRunner, runnersConstructed, containerVars, flagVars>>

\* the container enters or leaves display mode
SetDisplayMode(val) ==
    /\ survey
    /\ isDisplayMode' = val
    /\ calls' = <<>>
    /\ lastOp' = Op("setDisplayMode", val)
    /\ returned' = NoReturn
    /\ UNCHANGED <<matrixVars, storeVars, guardVars, errorVars, conditionVars,
                   questionStartIndex, visibleIndex, flagVars>>

\* question.isReadOnly is read
GetIsReadOnly ==
    /\ returned' = isReadOnly
    /\ calls' = <<>>
    /\ lastOp' = Op("isReadOnly", 0)
    /\ UNCHANGED <<matrixVars, storeVars, guardVars, errorVars, viewVars>>

\* a question in a container, or in none
InitCondition ==
    /\ questionValue = NullValue
    /\ questionComment = UndefinedComment
    /\ data = NoData
    /\ isvalueChangedCallbackFiring = FALSE
    /\ isValueChangedInSurvey = FALSE
    /\ stack = <<>>
    /\ outerNotified = 0
    /\ errors = <<>>
    /\ isRequiredValue = FALSE
    /\ survey \in BOOLEAN
    /\ validateValueCallback = FALSE
    /\ InitView
    /\ rowCountValue = 2
    /\ rowCounter = 0
    /\ createdIndices = <<>>
    /\ returned = NoReturn
    /\ lastOp = [op |-> "new", arg |-> 0, rowCountBefore |-> 2]
    /\ calls = <<>>

NextCondition ==
    \/ \E text \in ExpressionInputs : SetEnableIf(text)
    \/ \E val \in BOOLEAN : SetReadOnly(val)
    \/ \E values \in ConditionValuesInputs : RunCondition(values)
    \/ \E val \in BOOLEAN : SetDisplayMode(val)
    \/ GetIsReadOnly

SpecCondition == InitCondition /\ [][NextCondition]_vars

-----------------------------------------------------------------------------
(* Question: the question number *)

(* Strings are sequences of character codes: "0" is <<48>>, "A" is <<65>>. *)

IsDigit(c) == c \in 48..57

\* the value of the longest prefix of s made of decimal digits, after acc
RECURSIVE DigitsValue(_, _)
DigitsValue(s, acc) ==
    IF s = <<>> \/ ~IsDigit(s[1])
    THEN acc
    ELSE DigitsValue(Tail(s), 10 * acc + (s[1] - 48))

\* parseInt(str): an optional sign, then decimal digits up to the first other
\* character; NaN when no digit follows the sign
parseInt(str) ==
    LET signed == str # <<>> /\ str[1] \in {43, 45}
        digits == IF signed THEN Tail(str) ELSE str
    IN IF digits = <<>> \/ ~IsDigit(digits[1])
       THEN [nan |-> TRUE, n |-> 0]
       ELSE [nan |-> FALSE,
             n |-> (IF signed /\ str[1] = 45 THEN -1 ELSE 1) * DigitsValue(digits, 0)]

\* "if (parseInt(str))": NaN and 0 are falsy
ParsesToStart(str) == ~parseInt(str).nan /\ parseInt(str).n # 0

\* Number.toString(): the decimal digits of n, after a minus sign when n < 0
RECURSIVE toString(_)
toString(n) ==
    IF n < 0 THEN <<45>> \o toString(-n)
    ELSE IF n < 10 THEN <<48 + n>>
    ELSE toString(n \div 10) \o <<48 + (n % 10)>>

\* String.fromCharCode(code)
fromCharCode(code) == <<code % 65536>>

\* get no
no ==
    IF visibleIndex < 0 THEN <<>>
    ELSE LET hasStart == survey /\ questionStartIndex # <<>>
             str == IF hasStart THEN questionStartIndex ELSE <<>>
             startIndex == IF hasStart /\ ParsesToStart(str) THEN parseInt(str).n ELSE 1
             isNumeric == ~(hasStart /\ ~ParsesToStart(str) /\ Len(str) = 1)
         IN IF isNumeric
            THEN toString(visibleIndex + startIndex)
            ELSE fromCharCode(str[1] + visibleIndex)

\* question.no is read
GetNo ==
    /\ returned' = no
    /\ calls' = <<>>
    /\ lastOp' = Op("no", 0)
    /\ UNCHANGED <<matrixVars, storeVars, guardVars, errorVars, viewVars>>

\* the texts of questionStartIndex: "0", "1", "2", "10", "00", "-1", "A", "a",
\* "z" and "AB"
StartIndexInputs ==
    {<<48>>, <<49>>, <<50>>, <<49, 48>>, <<48, 48>>, <<45, 49>>, <<65>>, <<97>>,
     <<122>>, <<65, 66>>}

\* a question at any position, in a container with or without a
\* questionStartIndex, or in no container
InitNo ==
    /\ questionValue = NullValue
    /\ questionComment = UndefinedComment
    /\ data = NoData
    /\ isvalueChangedCallbackFiring = FALSE
    /\ isValueChangedInSurvey = FALSE
    /\ stack = <<>>
    /\ outerNotified = 0
    /\ errors = <<>>
    /\ isRequiredValue = FALSE
    /\ survey \in BOOLEAN
    /\ validateValueCallback = FALSE
    /\ readOnlyValue = FALSE
    /\ enableIf = ""
    /\ conditionEnabelRunner = NoRunner
    /\ runnersConstructed = 0
    /\ isDisplayMode = FALSE
    /\ questionStartIndex \in (IF survey THEN StartIndexInputs \cup {<<>>} ELSE {<<>>})
    /\ visibleIndex \in -1..MaxVisibleIndex
    /\ InitFlags
    /\ rowCountValue = 2
    /\ rowCounter = 0
    /\ createdIndices = <<>>
    /\ returned = NoReturn
    /\ lastOp = [op |-> "new", arg |-> 0, rowCountBefore |-> 2]
    /\ calls = <<>>

NextNo == GetNo

SpecNo == InitNo /\ [][NextNo]_vars

-----------------------------------------------------------------------------
(* Question: hasComment and hasOther *)

\* get hasComment
hasComment == hasCommentValue

\* get hasOther
hasOther == hasOtherValue

\* set hasComment, line 171: the assignment goes on unless "!this.supportComment()"
HasCommentAccepts == supportComment

\* set hasOther, line 187: the assignment of val goes on unless
\* "!this.supportOther() || this.hasOther == val"
HasOtherAccepts(val) == supportOther /\ hasOther # val

CommentClearsOther_Never(val) == FALSE
\* set hasComment, line 173: "if (this.hasComment)" after val was stored
CommentClearsOther(val) == val

\* set hasOther, line 189: "if (this.hasOther)" after val was stored
OtherClearsComment(val) == val

\* question.hasComment = val; when it stores true it runs hasOther = false,
\* whose own hasComment = false is not reached (hasOther is false by then)
SetHasComment(val) ==
    /\ IF ~HasCommentAccepts
       THEN /\ calls' = <<>>
            /\ UNCHANGED <<hasCommentValue, hasOtherValue>>
       ELSE /\ hasCommentValue' = val
            /\ IF CommentClearsOther(val) /\ HasOtherAccepts(FALSE)
               THEN /\ hasOtherValue' = FALSE
                    /\ calls' = <<"hasOtherChanged">>
               ELSE /\ calls' = <<>>
                    /\ UNCHANGED hasOtherValue
    /\ lastOp' = Op("setHasComment", val)
    /\ returned' = NoReturn
    /\ UNCHANGED <<matrixVars, storeVars, guardVars, errorVars, conditionVars,
                   containerVars, supportComment, supportOther>>

\* question.hasOther = val; when it stores true it runs hasComment = false,
\* which stores false and stops there
SetHasOther(val) ==
    /\ IF ~HasOtherAccepts(val)
       THEN /\ calls' = <<>>
            /\ UNCHANGED <<hasCommentValue, hasOtherValue>>
       ELSE /\ hasOtherValue' = val
            /\ IF OtherClearsComment(val) /\ HasCommentAccepts
               THEN hasCommentValue' = FALSE
               ELSE UNCHANGED hasCommentValue
            /\ calls' = <<"hasOtherChanged">>
    /\ lastOp' = Op("setHasOther", val)
    /\ returned' = NoReturn
    /\ UNCHANGED <<matrixVars, storeVars, guardVars, errorVars, conditionVars,
                   containerVars, supportComment, supportOther>>

\* question.hasComment is read
GetHasComment ==
    /\ returned' = hasComment
    /\ calls' = <<>>
    /\ lastOp' = Op("hasComment", 0)
    /\ UNCHANGED <<matrixVars, storeVars, guardVars, errorVars, viewVars>>

\* question.hasOther is read
GetHasOther ==
    /\ returned' = hasOther
    /\ calls' = <<>>
    /\ lastOp' = Op("hasOther", 0)
    /\ UNCHANGED <<matrixVars, storeVars, guardVars, errorVars, viewVars>>

\* a question of a class that supports comments, the other choice, both or neither
InitSupport ==
    /\ questionValue = NullValue
    /\ questionComment = UndefinedComment
    /\ data = NoData
    /\ isvalueChangedCallbackFiring = FALSE
    /\ isValueChangedInSurvey = FALSE
    /\ stack = <<>>
    /\ outerNotified = 0
    /\ errors = <<>>
    /\ isRequiredValue = FALSE
    /\ survey = FALSE
    /\ validateValueCallback = FALSE
    /\ readOnlyValue = FALSE
    /\ enableIf = ""
    /\ conditionEnabelRunner = NoRunner
    /\ runnersConstructed = 0
    /\ isDisplayMode = FALSE
    /\ questionStartIndex = <<>>
    /\ visibleIndex = -1
    /\ hasCommentValue = FALSE
    /\ hasOtherValue = FALSE
    /\ supportComment \in BOOLEAN
    /\ supportOther \in BOOLEAN
    /\ rowCountValue = 2
    /\ rowCounter = 0
    /\ createdIndices = <<>>
    /\ returned = NoReturn
    /\ lastOp = [op |-> "new", arg |-> 0, rowCountBefore |-> 2]
    /\ calls = <<>>

NextSupport ==
    \/ \E val \in BOOLEAN : SetHasComment(val)
    \/ \E val \in BOOLEAN : SetHasOther(val)
    \/ GetHasComment
    \/ GetHasOther
    \* assignments to the question's other two flags, in between
    \/ \E val \in BOOLEAN : SetIsRequired(val)
    \/ \E val \in BOOLEAN : SetReadOnly(val)

SpecSupport == InitSupport /\ [][NextSupport]_vars

-----------------------------------------------------------------------------
(* Claims about the dynamic matrix *)

\* The normalization the specification describes: the first rowCount entries of
\* the current value (none when there is no value), then empty objects up to
\* rowCount entries.
NormalizedTo(curValue, rowCount) ==
    LET cur == IF curValue.isNull THEN <<>> ELSE curValue.arr
    IN [i \in 1..rowCount |-> IF i <= Len(cur) THEN cur[i] ELSE EmptyObject]

\* the all-empty collapse: no value when the array holds nothing but empty objects
AllEmptyCollapse(a) ==
    IF \A i \in 1..Len(a) : a[i] = EmptyObject THEN NullValue ELSE ArrayValue(a)

\* the array a without its entry at 0-based position index
WithoutEntry(a, index) == [i \in 1..(Len(a) - 1) |-> IF i <= index THEN a[i] ELSE a[i + 1]]

\* C1: after any sequence of rowCount assignments, addRow() and removeRow(index)
\* calls, rowCount is an integer with 0 <= rowCount <= MaxRowCount.
C1_RowCountInRange ==
    rowCountValue \in 0..MaxRowCount

\* C1 witness: addRow() has brought rowCount up to MaxRowCount.
C1_Witness ==
    /\ lastOp.op = "addRow"
    /\ lastOp.rowCountBefore = MaxRowCount - 1
    /\ rowCountValue = MaxRowCount

\* C2: assigning rowCount a value below 0 or above MaxRowCount, and addRow() at
\* rowCount = MaxRowCount, change neither rowCount nor the value nor rowCounter,
\* and fire no notification.
C2_OutOfRangeIsNoOp ==
    [][ ( \/ /\ lastOp'.op = "setRowCount"
             /\ (lastOp'.arg < 0 \/ lastOp'.arg > MaxRowCount)
          \/ /\ lastOp'.op = "addRow"
             /\ rowCountValue = MaxRowCount )
        => /\ UNCHANGED <<rowCountValue, questionValue, data, rowCounter>>
           /\ calls' = <<>> ]_vars

\* C2 witness: addRow() was called at rowCount = MaxRowCount, after a value was stored.
C2_Witness ==
    /\ lastOp.op = "addRow"
    /\ lastOp.rowCountBefore = MaxRowCount
    /\ ~value.isNull

\* C4: removeRow(index) with a valid index decrements rowCount by one and sets
\* the value to the old value normalized to rowCount entries without the entry
\* at index (subject to the all-empty collapse); with an index outside
\* [0, rowCount) neither rowCount nor the value changes.
C4_RemoveRowKeepsOtherRows ==
    [][ lastOp'.op = "removeRow" =>
          IF 0 <= lastOp'.arg /\ lastOp'.arg < rowCountValue
          THEN /\ rowCountValue' = rowCountValue - 1
               /\ value' =
                    AllEmptyCollapse(WithoutEntry(NormalizedTo(value, rowCountValue), lastOp'.arg))
          ELSE UNCHANGED <<rowCountValue, questionValue, data>> ]_vars

\* C5: createNewValue returns rowCount entries: the current value's entries at
\* the positions below min(length, rowCount), then empty objects; a current value
\* longer than rowCount keeps its entry at position rowCount - 1.
C5_NormalizationKeepsPrefix ==
    [][ lastOp'.op = "createNewValue" =>
          returned' = NormalizedTo(value, rowCountValue) ]_vars

\* C6: generateRows() returns rowCount row models, and the one at position i
\* wraps entry i of the value normalized to rowCount entries.
C6_RowsWrapNormalizedValue ==
    [][ lastOp'.op = "generateRows" =>
          /\ Len(returned') = rowCountValue
          /\ \A i \in 1..Len(returned') :
                returned'[i].value = RowValue(NormalizedTo(value, rowCountValue)[i]) ]_vars

\* C7: rowCounter never decreases, and every row model created gets an index
\* greater than the index of every row model created before it.
C7_RowIndicesIncrease ==
    [][ /\ rowCounter' >= rowCounter
        /\ \A i, j \in 1..Len(createdIndices') :
              i < j => createdIndices'[i] < createdIndices'[j] ]_vars

\* C7 witness: rows were generated again, with fewer rows than the question started with.
C7_Witness ==
    /\ lastOp.op = "generateRows"
    /\ Len(returned) > 0
    /\ Len(createdIndices) > Len(returned)
    /\ lastOp.rowCountBefore < 2

\* C11: generateRows() called twice in a row returns, position by position,
\* rows with equal row values, and every index of the second call is greater
\* than every index of the first.
C11_RegenerateKeepsValues ==
    [][ (lastOp.op = "generateRows" /\ lastOp'.op = "generateRows")
        => /\ Len(returned') = Len(returned)
           /\ \A i \in 1..Len(returned) : returned'[i].value = returned[i].value
           /\ \A i \in 1..Len(returned), j \in 1..Len(returned') :
                 returned'[j].index > returned[i].index ]_vars

\* C11 witness: the second of two generateRows() calls in a row has returned
\* two rows, the first of them answered.
C11_Witness ==
    /\ lastOp.op = "generateRows"
    /\ lastOp.arg = 1
    /\ Len(returned) = 2
    /\ returned[1].value # RowValue(EmptyObject)

\* C12: removeRow(index) with a valid index that leaves only empty objects in
\* the array sets the value to null and decrements rowCount by one.
C12_RemoveRowCollapses ==
    [][ ( /\ lastOp'.op = "removeRow"
          /\ 0 <= lastOp'.arg /\ lastOp'.arg < rowCountValue
          /\ AllEmptyCollapse(WithoutEntry(NormalizedTo(value, rowCountValue), lastOp'.arg)) = NullValue )
        => /\ value' = NullValue
           /\ rowCountValue' = rowCountValue - 1 ]_vars

\* C12 witness: removeRow(0) at rowCount = 2 has replaced an array by null.
C12_Witness ==
    /\ lastOp = [op |-> "removeRow", arg |-> 0, rowCountBefore |-> 2]
    /\ calls = <<"valueChanged">>
    /\ value = NullValue
    /\ rowCountValue = 1

\* C20: after removeRow(index) with a valid index on a question that had a
\* value, the value is null or an array of rowCount entries (the new rowCount)
\* of which at least one is not empty.
C20_RemoveRowResultShape ==
    [][ ( /\ lastOp'.op = "removeRow"
          /\ 0 <= lastOp'.arg /\ lastOp'.arg < rowCountValue
          /\ ~value.isNull )
        => \/ value' = NullValue
           \/ /\ ~value'.isNull
              /\ Len(value'.arr) = rowCountValue'
              /\ \E i \in 1..Len(value'.arr) : value'.arr[i] # EmptyObject ]_vars

\* C20 witness: removeRow has left an array of two rows.
C20_Witness ==
    /\ lastOp.op = "removeRow"
    /\ calls = <<"valueChanged">>
    /\ ~value.isNull
    /\ Len(value.arr) = 2
    /\ rowCountValue = 2

-----------------------------------------------------------------------------
(* Claims about Question *)

\* C3: an outer assignment to value fires the value-changed notification at
\* most once, however its handler assigns value again while the notification
\* is dispatched; once no assignment is in progress the guard is cleared, and
\* an assignment made then notifies.
C3_NotifiesOncePerOuterAssignment ==
    [][ /\ outerNotified' <= 1
        /\ ~ValueSetInProgress' => ~isvalueChangedCallbackFiring'
        /\ (lastOp'.op \in {"setValue", "onSurveyValueChanged"} /\ ~ValueSetInProgress)
              => (calls' = <<"valueChanged">> /\ outerNotified' = 1) ]_vars

\* C3 witness: a handler nested two calls deep in the dispatch of an outer
\* assignment has assigned value, and no second notification was fired.
C3_Witness ==
    /\ lastOp.op = "setValue"
    /\ Len(stack) >= 2
    /\ stack[1] = AtValueSet
    /\ calls = <<>>
    /\ outerNotified = 1

ContainerAsked == \E i \in 1..Len(calls) : calls[i] \in {"validateValueCallback", "survey.validateQuestion"}
ValidatorsAsked == \E i \in 1..Len(calls) : calls[i] = "runValidators"

\* C8: hasErrors() on a required question with an empty value returns true and
\* leaves exactly the required error, and asks neither the validator chain nor
\* the container's validation.
C8_RequiredEmpty ==
    (lastOp.op = "hasErrors" /\ isRequiredValue /\ isValueEmpty(value))
        => /\ returned = TRUE
           /\ errors = <<RequiredError>>
           /\ ~ValidatorsAsked
           /\ ~ContainerAsked

\* C8 witness: the check ran on a required, empty question in a container,
\* where the validators and the container would both have reported an error.
C8_Witness ==
    /\ lastOp.op = "hasErrors"
    /\ isRequiredValue
    /\ isValueEmpty(value)
    /\ survey
    /\ lastOp.arg.validatorFails
    /\ lastOp.arg.containerFails

\* C9: when the value is not empty and the validator chain returns an error,
\* hasErrors() leaves exactly that error and does not ask the container; the
\* container is asked only when neither the required check nor the validator
\* chain produced an error.
C9_ValidatorShortCircuit ==
    lastOp.op = "hasErrors"
        => /\ (~isValueEmpty(value) /\ lastOp.arg.validatorFails)
                => (errors = <<ValidatorError>> /\ ~ContainerAsked)
           /\ ContainerAsked
                => /\ ~(isRequiredValue /\ isValueEmpty(value))
                   /\ ~(ValidatorsAsked /\ lastOp.arg.validatorFails)

\* C9 witness: a failing validator on an answered question in a container whose
\* validation would have failed too.
C9_Witness ==
    /\ lastOp.op = "hasErrors"
    /\ ~isValueEmpty(value)
    /\ lastOp.arg.validatorFails
    /\ lastOp.arg.containerFails
    /\ survey
    /\ validateValueCallback

\* C10: after hasErrors() the list holds at most one error, none of them an
\* error that was in the list before the call: the required error, else the
\* validator's, else the container's.
C10_ErrorsRebuilt ==
    lastOp.op = "hasErrors"
        => /\ Len(errors) <= 1
           /\ \A i \in 1..Len(errors) : errors[i] \in {RequiredError, ValidatorError, ContainerError}
           /\ (isRequiredValue /\ isValueEmpty(value)) => errors = <<RequiredError>>
           /\ errors = <<ContainerError>>
                => /\ ~(isRequiredValue /\ isValueEmpty(value))
                   /\ ~(~isValueEmpty(value) /\ lastOp.arg.validatorFails)

\* C10 witness: the check ran on a list of two added errors and left one.
C10_Witness ==
    /\ lastOp.op = "hasErrors"
    /\ lastOp.arg.errorLength >= 2
    /\ Len(errors) = 1

\* the number of errors-changed notifications the last step fired
ErrorsChangedFired == Cardinality({i \in 1..Len(calls) : calls[i] = "errorsChanged"})

\* C15: hasErrors(notify) fires errors-changed once when notify is true and
\* the error count differs from the count before the call or that count was
\* not zero, and does not fire otherwise (never with notify false);
\* addError(e) appends e and fires errors-changed.
C15_ErrorsChangedNotification ==
    [][ /\ lastOp'.op = "hasErrors"
           => ErrorsChangedFired' =
                 (IF lastOp'.arg.fireCallback
                     /\ (Len(errors') # Len(errors) \/ Len(errors) > 0)
                  THEN 1 ELSE 0)
        /\ lastOp'.op = "addError"
           => /\ errors' = Append(errors, lastOp'.arg)
              /\ ErrorsChangedFired' = 1 ]_vars

\* C15 witness: hasErrors(true) found one error where there was one before
\* the call, and fired errors-changed.
C15_Witness ==
    /\ lastOp.op = "hasErrors"
    /\ lastOp.arg.fireCallback
    /\ lastOp.arg.errorLength = 1
    /\ Len(errors) = 1
    /\ ErrorsChangedFired = 1

\* an onSurveyValueChanged call has been entered and has not returned
SurveyChangeInProgress ==
    \E i \in 1..Len(stack) : stack[i] \in {AtSurveyValue, AtSurveyComment}

\* C13: from the entry of onSurveyValueChanged to its return, the handlers it
\* dispatches included, the stored value (provider or fallback slot) is not
\* written; when no such call is in progress the flag isValueChangedInSurvey
\* is false and an assignment is stored.
C13_NoStoreDuringSurveyChange ==
    [][ /\ (SurveyChangeInProgress \/ SurveyChangeInProgress')
           => (questionValue' = questionValue /\ data'.value = data.value)
        /\ ~SurveyChangeInProgress' => ~isValueChangedInSurvey'
        /\ (lastOp'.op = "setValue" /\ ~SurveyChangeInProgress)
           => value' = valueFromData(valueToData(lastOp'.arg)) ]_vars

\* C14 as stated: every assignment question.value = v, from the client or
\* from a handler whichever operation dispatched it, is stored, and value
\* then reads valueFromData(valueToData(v)).
C14_EveryAssignmentStored ==
    [][ lastOp'.op = "setValue"
        => value' = valueFromData(valueToData(lastOp'.arg)) ]_vars

\* C14: an assignment question.value = v made while no onSurveyValueChanged
\* call is in progress, by the client or by a handler that a value or comment
\* assignment dispatched, is stored, and value then reads
\* valueFromData(valueToData(v)); an assignment made while the flag
\* isValueChangedInSurvey is set stores nothing.
C14_AssignmentStoredOutsideSurveyChange ==
    [][ lastOp'.op = "setValue"
        => /\ ~SurveyChangeInProgress
              => value' = valueFromData(valueToData(lastOp'.arg))
           /\ isValueChangedInSurvey
              => (questionValue' = questionValue /\ data' = data) ]_vars

\* C14 witness: a comment-changed handler that set comment dispatched has
\* assigned a row array, which is now the value the provider holds.
C14_Witness ==
    /\ lastOp.op = "setValue"
    /\ stack = <<AtCommentSet, AtValueSet>>
    /\ data.attached
    /\ ~lastOp.arg.isNull
    /\ lastOp.arg.arr # <<>>
    /\ value = lastOp.arg

\* C18: set comment leaves value as it is and set value leaves comment as it
\* is; set comment with the text the comment already has stores nothing and
\* fires no comment-changed notification.
C18_ValueAndCommentIndependent ==
    [][ /\ lastOp'.op = "setComment"
           => /\ value' = value
              /\ comment = lastOp'.arg => (UNCHANGED storeVars /\ calls' = <<>>)
        /\ lastOp'.op = "setValue" => comment' = comment ]_vars

\* C18 witness: set comment was called with the text the comment has, on a
\* question holding a row array.
C18_Witness ==
    /\ lastOp.op = "setComment"
    /\ lastOp.arg = "text"
    /\ comment = "text"
    /\ calls = <<>>
    /\ ~value.isNull
    /\ value.arr # <<>>

\* C16: runCondition(values) with a non-empty enableIf sets readOnly to the
\* negation of what the enableIf text of that moment evaluates to on values,
\* whatever text an earlier runCondition ran; the question constructs at most
\* one runner; isReadOnly is readOnly or the container's display mode.
C16_RunConditionSetsReadOnly ==
    [][ /\ (lastOp'.op = "runCondition" /\ enableIf # "")
           => readOnlyValue' = ~Evaluate(enableIf, lastOp'.arg.values)
        /\ runnersConstructed' <= 1
        /\ lastOp'.op = "isReadOnly"
           => returned' = (readOnlyValue \/ (survey /\ isDisplayMode)) ]_vars

\* C16 witness: runCondition has run "{a} = 2" on a runner that an earlier
\* runCondition left with "{a} = 1", and found the question enabled.
C16_Witness ==
    /\ lastOp.op = "runCondition"
    /\ lastOp.arg.expressionBefore = "{a} = 1"
    /\ lastOp.arg.values = [a |-> 2]
    /\ enableIf = "{a} = 2"
    /\ runnersConstructed = 1
    /\ ~readOnlyValue

\* C17: runCondition(values) with an empty enableIf leaves readOnly as it is,
\* true included, and fires no read-only-changed notification.
C17_EmptyEnableIfKeepsReadOnly ==
    [][ (lastOp'.op = "runCondition" /\ enableIf = "")
        => /\ readOnlyValue' = readOnlyValue
           /\ \A i \in 1..Len(calls') : calls'[i] # "readOnlyChanged" ]_vars

\* C17 witness: runCondition has run with enableIf cleared, after an earlier
\* one constructed the runner, on a question that is read-only.
C17_Witness ==
    /\ lastOp.op = "runCondition"
    /\ enableIf = ""
    /\ conditionEnabelRunner.constructed
    /\ readOnlyValue

\* a start token is numeric when it is decimal digits after an optional minus sign
IsNumericToken(token) ==
    LET digits == IF token # <<>> /\ token[1] = 45 THEN Tail(token) ELSE token
    IN digits # <<>> /\ \A i \in 1..Len(digits) : IsDigit(digits[i])

\* the integer a numeric start token denotes
IntegerOfToken(token) ==
    IF token[1] = 45 THEN -DigitsValue(Tail(token), 0) ELSE DigitsValue(token, 0)

\* C19: no is the empty string when visibleIndex < 0; otherwise it is the
\* decimal text of visibleIndex + 1 when questionStartIndex is not set, the
\* decimal text of visibleIndex + start when questionStartIndex is a numeric
\* token denoting start, and the character of code code(c) + visibleIndex when
\* questionStartIndex is one non-numeric character c.
C19_QuestionNumber ==
    lastOp.op = "no"
    => returned =
         (IF visibleIndex < 0 THEN <<>>
          ELSE IF ~survey \/ questionStartIndex = <<>> THEN toString(visibleIndex + 1)
          ELSE IF IsNumericToken(questionStartIndex)
               THEN toString(visibleIndex + IntegerOfToken(questionStartIndex))
          ELSE IF Len(questionStartIndex) = 1
               THEN <<questionStartIndex[1] + visibleIndex>>
          ELSE returned)

\* C21: hasComment and hasOther are never both true, and a flag that the
\* question's class does not support (supportComment(), supportOther()) is
\* false, after any assignments to the two flags.
C21_CommentAndOtherExclusive ==
    /\ ~(hasComment /\ hasOther)
    /\ ~supportComment => ~hasComment
    /\ ~supportOther => ~hasOther

\* C21 witness: in a class that supports both, hasComment = true has been
\* stored and has cleared a hasOther that was true.
C21_Witness ==
    /\ supportComment /\ supportOther
    /\ lastOp.op = "setHasComment"
    /\ lastOp.arg = TRUE
    /\ calls = <<"hasOtherChanged">>
    /\ hasComment
    /\ ~hasOther

====
